---- MODULE Spec2Model ----
(***************************************************************************)
(* Model of the project service of uni-project-vault: the zustand project *)
(* store (useProjectStore), createProject, addProject (with its awaited   *)
(* call of the summarizer), getAllProjects, getAllProjectsAdmin,          *)
(* getProjectById and updateProject, over the seed store mockProjects.    *)
(*                                                                         *)
(* JavaScript runs each synchronous stretch of code to completion, so an  *)
(* action is one such stretch: a whole synchronous function, or the part  *)
(* of addProject before, respectively after, its await.                   *)
(***************************************************************************)
EXTENDS Integers, Sequences, FiniteSets, TLC

VARIABLES
    projects,      \* useProjectStore.getState().projects, first element first
    calls,         \* one entry per createProject call, in call order:
                   \*   project: the object createProject returned (addProject
                   \*            assigns aiSummary on that same object)
                   \*   pc:      where the caller's createProject/addProject flow is
                   \*   args:    the arguments createProject was called with
    now,           \* the clock Date.now() reads
    updates,       \* number of updateProject calls made so far
    lastUpdate     \* the latest updateProject call, <<>> before the first:
                   \*   arg:      the record it was called with
                   \*   awaiting: the addProject calls of a record with the
                   \*             id of arg that were waiting for the
                   \*             summarizer when it was made

vars == <<projects, calls, now, updates, lastUpdate>>

---------------------------------------------------------------------------
(* Bounds of the model *)

MaxCreates == 2     \* createProject calls in one behaviour
MaxUpdates == 1     \* updateProject calls in one behaviour

---------------------------------------------------------------------------
(* JavaScript values *)

\* The value of a missing numeric property or enum member. No id, tag or
\* institution equals it under ===.
undefined == -1

\* null, undefined and '' as an address argument: all three are falsy, and the
\* code only ever tests an address argument for truthiness.
NoAddress == ""

\* null, undefined or '' as a summary: the code tests `if (summary)` and
\* `!project.aiSummary`.
NoSummary == ""

Truthy(s) == s # ""

\* obj.name, undefined when the object has no such property
Prop(obj, name) == IF name \in DOMAIN obj THEN obj[name] ELSE undefined

\* obj.name = value on an object that may or may not have the property
SetProp(obj, name, value) ==
    [f \in DOMAIN obj \cup {name} |-> IF f = name THEN value ELSE obj[f]]

\* Math.max(...xs, 0) for a finite set of numbers xs
MaxOf(xs) ==
    IF xs = {} THEN 0
    ELSE LET x == CHOOSE y \in xs : \A z \in xs : z <= y
         IN IF x > 0 THEN x ELSE 0

Range(seq) == {seq[i] : i \in DOMAIN seq}

---------------------------------------------------------------------------
(* src/src/lib/blockchain.ts *)

AccessLevel == [Public |-> 0, Restricted |-> 1, Private |-> 2]

\* AccessLevel.<name> as the compiled enum object answers it
EnumMember(name) ==
    IF name \in DOMAIN AccessLevel THEN AccessLevel[name] ELSE undefined

AccessLevelPublic == EnumMember("Public")
AccessLevelRestricted == EnumMember("Restricted")
AccessLevelPrivate == EnumMember("Private")
\* part_000 lines 133 and 159 read AccessLevel.Institution
AccessLevelInstitution == EnumMember("Institution")

AccessLevels == {AccessLevel[n] : n \in DOMAIN AccessLevel}

\* Times are counted in seconds (the code counts milliseconds, 86400000 to
\* the day): the code only stores and copies them.
Day == 86400

\* Date.now() when the module blockchain.ts is loaded
LoadTime == Day * 30

mockProjects == <<
    [id |-> 1,
     title |-> "Decentralized Identity Management System",
     authors |-> <<"0x1234567890123456789012345678901234567890">>,
     uploadDate |-> LoadTime - Day * 5,
     ipfsHash |-> "QmT8TstX4ngjQwvQfS9ZnuXAT3Cmey1NefdRs5QXwXFiP7",
     departmentId |-> 1,
     year |-> 2023,
     description |-> "A blockchain-based identity management system",
     accessLevel |-> AccessLevelPublic],
    [id |-> 2,
     title |-> "Smart Grid Energy Distribution",
     authors |-> <<"0x2345678901234567890123456789012345678901">>,
     uploadDate |-> LoadTime - Day * 10,
     ipfsHash |-> "QmUNLLsPACCz1vLxQVkXqqLX5R1X345qqfHbsf67hvA3Nn",
     departmentId |-> 2,
     year |-> 2023,
     description |-> "An intelligent energy distribution system",
     accessLevel |-> AccessLevelRestricted],
    [id |-> 3,
     title |-> "Blockchain-based Supply Chain Management",
     authors |-> <<"0x3456789012345678901234567890123456789012">>,
     uploadDate |-> LoadTime - Day * 15,
     ipfsHash |-> "QmZMHCFoYMfxw7bUca4wRtmD8ubWxucJNAqjTgG5ATJLVd",
     departmentId |-> 6,
     year |-> 2023,
     description |-> "A supply chain management system",
     accessLevel |-> AccessLevelPublic],
    [id |-> 4,
     title |-> "Privacy-Preserving Machine Learning",
     authors |-> <<"0x4567890123456789012345678901234567890123">>,
     uploadDate |-> LoadTime - Day * 20,
     ipfsHash |-> "QmSgvgwxZGMrjhpVNvKmh3mBJhgUVfhKhrSVnxKzCGNnxk",
     departmentId |-> 1,
     year |-> 2023,
     description |-> "A machine learning framework that preserves data privacy",
     accessLevel |-> AccessLevelPrivate],
    [id |-> 5,
     title |-> "Sustainable Building Materials Analysis",
     authors |-> <<"0x5678901234567890123456789012345678901234">>,
     uploadDate |-> LoadTime - Day * 25,
     ipfsHash |-> "QmW2WQi7j6c7UgJTarActp7tDNikE4B2qXtFCfLPdsgaTQ",
     departmentId |-> 4,
     year |-> 2023,
     description |-> "Analysis of sustainable building materials",
     accessLevel |-> AccessLevelPublic],
    [id |-> 6,
     title |-> "Quantum Algorithm for Optimization Problems",
     authors |-> <<"0x6789012345678901234567890123456789012345">>,
     uploadDate |-> LoadTime - Day * 30,
     ipfsHash |-> "QmTkzDwWqPbnAh5YiV5VwcTLnGdwSNsNTn2aDxdXBFca7D",
     departmentId |-> 7,
     year |-> 2023,
     description |-> "A quantum computing algorithm",
     accessLevel |-> AccessLevelRestricted] >>

---------------------------------------------------------------------------
(* The Directory (./studentService, not among the sources): a read-only   *)
(* lookup from an identity to its affiliation; not every identity         *)
(* resolves, and the match is on the identity as given.                   *)

Students ==
    ("0xaa" :> [institutionId |-> 1, departmentId |-> 2]) @@
    ("0xbb" :> [institutionId |-> 2, departmentId |-> 3])

\* The student as a sequence of at most one element: <<>> is "not found"
getStudentByWallet(wallet) ==
    IF wallet \in DOMAIN Students THEN <<Students[wallet]>> ELSE <<>>

---------------------------------------------------------------------------
(* Inputs *)

\* what `0x${Math.random().toString(16).substring(2, 42)}` may produce
FabricatedAddresses == {"0x8f3a91c2d4"}

\* what generateMockIpfsHash() may produce: Qm and 44 characters
MockIpfsHashes == {"QmAbCdEfGhIjKlMnOpQrStUvWxYz0123456789AbCdEfGhIj"}

\* The argument lists createProject is called with: every access level; an
\* author that is left out (NoAddress: the code fabricates one), one that
\* does not resolve in the Directory ("0xAA") and one that does ("0xbb"); a
\* hash that is given and one that is left out ('': the code generates one).
CreateArgs == {
    [title |-> "Title", description |-> "Description", departmentId |-> 5,
     year |-> 2024, accessLevel |-> AccessLevelPublic,
     ipfsHash |-> "", authorAddress |-> NoAddress],
    [title |-> "Title", description |-> "Description", departmentId |-> 5,
     year |-> 2024, accessLevel |-> AccessLevelRestricted,
     ipfsHash |-> "QmGivenByTheCaller", authorAddress |-> "0xAA"],
    [title |-> "Title", description |-> "Description", departmentId |-> 5,
     year |-> 2024, accessLevel |-> AccessLevelRestricted,
     ipfsHash |-> "", authorAddress |-> "0xbb"],
    [title |-> "Title", description |-> "Description", departmentId |-> 5,
     year |-> 2024, accessLevel |-> AccessLevelPrivate,
     ipfsHash |-> "QmGivenByTheCaller", authorAddress |-> "0xAA"] }

\* the summary a caller may have put on the record before addProject
CallerSummaries == {"Caller summary"}

\* what the summarizer may answer: a text, or nothing
SummaryTexts == {"AI summary"}

\* viewers: no identity, the identities above, and an author of the seed store
Viewers ==
    {NoAddress, "0xaa", "0xAA", "0xbb"} \cup FabricatedAddresses
        \cup {"0x4567890123456789012345678901234567890123"}

---------------------------------------------------------------------------
(* src/unnamed/part_000: the store *)

\* A variant that puts the record last
StoreAddProjectLast(state, project) == state \o <<project>>

\* useProjectStore.addProject: projects: [project, ...state.projects]
StoreAddProject(state, project) == <<project>> \o state

\* useProjectStore.getProjects
getProjects == projects

---------------------------------------------------------------------------
(* src/unnamed/part_000: createProject *)

\* A variant that takes the id of the newest record for the maximum
maxIdOfNewest(state) == IF state = <<>> THEN 0 ELSE state[1].id

\* Math.max(...projects.map(p => p.id), 0)
maxId(state) == MaxOf({state[i].id : i \in DOMAIN state})

newId(state) == maxId(state) + 1

\* A variant that keeps the department the caller gave
createProjectCallerDepartment(state, args, mockHash, mockAddress, time) ==
    LET author == IF Truthy(args.authorAddress)
                  THEN args.authorAddress ELSE mockAddress
        student == getStudentByWallet(author)
    IN [id |-> newId(state),
        title |-> args.title,
        description |-> args.description,
        departmentId |-> args.departmentId,
        institutionId |->
            IF student # <<>> THEN student[1].institutionId ELSE 1,
        year |-> args.year,
        accessLevel |-> args.accessLevel,
        ipfsHash |-> IF Truthy(args.ipfsHash) THEN args.ipfsHash ELSE mockHash,
        authors |-> <<author>>,
        uploadDate |-> time,
        creatorAddress |-> author]

\* The record createProject builds, given the store it reads, its arguments
\* (a record with one field for each parameter), what the two random
\* generators produce and what Date.now() reads.
createProject(state, args, mockHash, mockAddress, time) ==
    LET title == args.title
        description == args.description
        year == args.year
        accessLevel == args.accessLevel
        hash == IF Truthy(args.ipfsHash) THEN args.ipfsHash ELSE mockHash
        author == IF Truthy(args.authorAddress)
                  THEN args.authorAddress ELSE mockAddress
        student == getStudentByWallet(author)
        studentDepartmentId ==
            IF student # <<>> THEN student[1].departmentId
            ELSE args.departmentId
        institutionId ==
            IF student # <<>> THEN student[1].institutionId ELSE 1
    IN [id |-> newId(state),
        title |-> title,
        description |-> description,
        departmentId |-> studentDepartmentId,
        institutionId |-> institutionId,
        year |-> year,
        accessLevel |-> accessLevel,
        ipfsHash |-> hash,
        authors |-> <<author>>,
        uploadDate |-> time,
        creatorAddress |-> author]

\* A variant that stores the record it builds
CreateProjectAndStore ==
    /\ Len(calls) < MaxCreates
    /\ \E a \in CreateArgs, mockHash \in MockIpfsHashes,
          mockAddress \in FabricatedAddresses :
         LET project == createProject(projects, a, mockHash, mockAddress, now)
         IN /\ calls' = Append(calls,
                   [project |-> project, pc |-> "created", args |-> a])
            /\ projects' = StoreAddProject(projects, project)
    /\ now' = now + 1
    /\ UNCHANGED <<updates, lastUpdate>>

CreateProject ==
    /\ Len(calls) < MaxCreates
    /\ \E a \in CreateArgs, mockHash \in MockIpfsHashes,
          mockAddress \in FabricatedAddresses :
         calls' = Append(calls,
             [project |-> createProject(projects, a, mockHash, mockAddress,
                                        now),
              pc |-> "created",
              args |-> a])
    \* the clock moves on between two calls
    /\ now' = now + 1
    /\ UNCHANGED <<projects, updates, lastUpdate>>

---------------------------------------------------------------------------
(* src/unnamed/part_000: addProject *)

\* project.aiSummary is truthy
HasSummary(project) ==
    "aiSummary" \in DOMAIN project /\ Truthy(project.aiSummary)

\* lines 98-100: if (summary) project.aiSummary = summary
AttachSummary(project, summary) ==
    IF Truthy(summary) THEN SetProp(project, "aiSummary", summary) ELSE project

\* line 108, with the object and the position of call i brought up to date
Insert(i, project) ==
    /\ projects' = StoreAddProject(projects, project)
    /\ calls' = [calls EXCEPT ![i].project = project, ![i].pc = "fulfilled"]

\* addProject(project) up to its await (lines 93-97): a record that already
\* has a summary is inserted at once, for any other the summarizer is called.
AddProjectCall(i) ==
    /\ i \in DOMAIN calls
    /\ calls[i].pc = "created"
    /\ \E given \in {NoSummary} \cup CallerSummaries :
         LET project == AttachSummary(calls[i].project, given)
         IN IF ~HasSummary(project)
            THEN /\ calls' = [calls EXCEPT ![i].project = project,
                                         ![i].pc = "awaiting"]
                 /\ UNCHANGED projects
            ELSE Insert(i, project)
    /\ UNCHANGED <<now, updates, lastUpdate>>

\* the summarizer answers, with a text or with nothing: lines 98-100, 108
SummarizerReturns(i) ==
    /\ i \in DOMAIN calls
    /\ calls[i].pc = "awaiting"
    /\ \E summary \in SummaryTexts \cup {NoSummary} :
         Insert(i, AttachSummary(calls[i].project, summary))
    /\ UNCHANGED <<now, updates, lastUpdate>>

\* the summarizer fails: lines 102-105 (the catch block writes to the
\* console and nothing else), 108
SummarizerThrows(i) ==
    /\ i \in DOMAIN calls
    /\ calls[i].pc = "awaiting"
    /\ Insert(i, calls[i].project)
    /\ UNCHANGED <<now, updates, lastUpdate>>

\* the summarizer never settles its promise: line 97 has no time limit, so
\* the rest of addProject never runs
SummarizerSilent(i) ==
    /\ i \in DOMAIN calls
    /\ calls[i].pc = "awaiting"
    /\ calls' = [calls EXCEPT ![i].pc = "hung"]
    /\ UNCHANGED <<projects, now, updates, lastUpdate>>

---------------------------------------------------------------------------
(* src/unnamed/part_000: the read paths *)

\* project.authors.includes(userAddress)
Includes(authors, userAddress) == userAddress \in Range(authors)

\* the filter of lines 121-139, for a truthy userAddress
VisibleTo(project, userAddress, student) ==
    IF project.accessLevel = AccessLevelPublic THEN TRUE
    ELSE IF Includes(project.authors, userAddress) THEN TRUE
    ELSE IF /\ project.accessLevel = AccessLevelInstitution
            /\ student # <<>>
            /\ Prop(project, "institutionId") = student[1].institutionId
         THEN TRUE
    ELSE FALSE

getAllProjects(state, userAddress) ==
    LET student == IF Truthy(userAddress)
                   THEN getStudentByWallet(userAddress) ELSE <<>>
        IsPublic(project) == project.accessLevel = AccessLevelPublic
        Test(project) == VisibleTo(project, userAddress, student)
    IN IF ~Truthy(userAddress)
       THEN SelectSeq(state, IsPublic)
       ELSE SelectSeq(state, Test)

getAllProjectsAdmin(state) == state

\* projects.find(project => project.id === id): the first match, as a
\* sequence of at most one element (<<>> is undefined)
Find(state, id) ==
    LET hits == {i \in DOMAIN state : state[i].id = id}
    IN IF hits = {} THEN <<>>
       ELSE <<state[CHOOSE i \in hits : \A j \in hits : i <= j]>>

\* A variant without the rule for authors
getProjectByIdLevelOnly(state, id, userAddress) ==
    LET found == Find(state, id)
        student == IF Truthy(userAddress)
                   THEN getStudentByWallet(userAddress) ELSE <<>>
    IN IF found = <<>> THEN <<>>
       ELSE LET project == found[1]
            IN IF \/ project.accessLevel = AccessLevelPublic
                  \/ (/\ project.accessLevel = AccessLevelInstitution
                      /\ student # <<>>
                      /\ Prop(project, "institutionId")
                            = student[1].institutionId)
               THEN <<project>>
               ELSE <<>>

\* the record, or <<>> for undefined
getProjectById(state, id, userAddress) ==
    LET found == Find(state, id)
        student == IF Truthy(userAddress)
                   THEN getStudentByWallet(userAddress) ELSE <<>>
    IN IF found = <<>> THEN <<>>
       ELSE LET project == found[1]
            IN IF \/ project.accessLevel = AccessLevelPublic
                  \/ (Truthy(userAddress)
                        /\ Includes(project.authors, userAddress))
                  \/ (/\ project.accessLevel = AccessLevelInstitution
                      /\ student # <<>>
                      /\ Prop(project, "institutionId")
                            = student[1].institutionId)
               THEN <<project>>
               ELSE <<>>

---------------------------------------------------------------------------
(* src/unnamed/part_000: updateProject *)

\* A variant that inserts the record when no stored record has its id
updateProjectOrInsert(state, updatedProject) ==
    IF \A i \in DOMAIN state : state[i].id # updatedProject.id
    THEN <<updatedProject>> \o state
    ELSE [i \in DOMAIN state |->
            IF state[i].id = updatedProject.id THEN updatedProject
            ELSE state[i]]

updateProject(state, updatedProject) ==
    [i \in DOMAIN state |->
        IF state[i].id = updatedProject.id THEN updatedProject ELSE state[i]]

\* The next access level, round the three
NextLevel(accessLevel) == (accessLevel + 1) % Cardinality(AccessLevels)

\* The records updateProject is called with: the first record this run
\* created (stored already or not) or the Private record of the seed store,
\* edited and submitted again by "0xaa": a new title, another access level,
\* one more author, the date of the edit and the identity of the editor.
Editable ==
    {calls[i].project : i \in DOMAIN calls \cap {1}} \cup {mockProjects[4]}

\* the date of an edit: the day after the module was loaded
EditTime == LoadTime + Day

Edited(p) ==
    SetProp([p EXCEPT !.title = "Edited",
                      !.accessLevel = NextLevel(@),
                      !.authors = Append(@, "0xaa"),
                      !.uploadDate = EditTime],
            "creatorAddress", "0xaa")

UpdateArgs == {Edited(p) : p \in Editable}

\* the addProject calls of a record with this id that wait for the summarizer
Awaiting(id) ==
    {i \in DOMAIN calls : calls[i].pc = "awaiting" /\ calls[i].project.id = id}

UpdateProject ==
    /\ updates < MaxUpdates
    /\ updates' = updates + 1
    /\ \E updatedProject \in UpdateArgs :
         /\ projects' = updateProject(projects, updatedProject)
         /\ lastUpdate' = <<[arg |-> updatedProject, awaiting |-> Awaiting(updatedProject.id)]>>
    /\ UNCHANGED <<calls, now>>

---------------------------------------------------------------------------

Init ==
    /\ projects = mockProjects
    /\ calls = <<>>
    /\ now = LoadTime
    /\ updates = 0
    /\ lastUpdate = <<>>

\* the createProject calls a behaviour may hold
CallIds == 1 .. MaxCreates

Next ==
    \/ CreateProject
    \/ \E i \in CallIds : AddProjectCall(i)
    \/ \E i \in CallIds : SummarizerReturns(i)
    \/ \E i \in CallIds : SummarizerThrows(i)
    \/ \E i \in CallIds : SummarizerSilent(i)
    \/ UpdateProject

Spec == Init /\ [][Next]_vars

\* The event loop runs every callback that is ready: a caller that holds a
\* created record goes on to call addProject, and a summarizer call that has
\* been made takes one of its three courses (it answers, it fails, or its
\* promise never settles).
Fairness ==
    \A i \in CallIds :
        /\ WF_vars(AddProjectCall(i))
        /\ WF_vars(SummarizerReturns(i) \/ SummarizerThrows(i)
                      \/ SummarizerSilent(i))

FairSpec == Init /\ [][Next]_vars /\ Fairness

---------------------------------------------------------------------------
(* The operations under their specified names, on the current store *)

listVisible(v) == getAllProjects(getProjects, v)
listAllUnfiltered == getAllProjectsAdmin(getProjects)
getVisible(id, v) == getProjectById(getProjects, id, v)

\* the list holds the record
Contains(list, r) == r \in Range(list)

\* The access rule as section 4.2 of the specification states it, with the
\* Institution level stored as tag 1
CanView(r, v) ==
    LET aff == IF Truthy(v) THEN getStudentByWallet(v) ELSE <<>>
    IN \/ r.accessLevel = 0
       \/ Truthy(v) /\ v \in Range(r.authors)
       \/ /\ r.accessLevel = 1
          /\ aff # <<>>
          /\ Prop(r, "institutionId") = aff[1].institutionId

\* the creations whose addProject has completed
Completed == {i \in DOMAIN calls : calls[i].pc = "fulfilled"}

---------------------------------------------------------------------------
(* Identifiers *)

\* C1: the records of any number of creations (createProject, then addProject,
\* which inserts after its await), however interleaved, have pairwise
\* distinct ids, all of them greater than the greatest id the store held
\* before the first creation.
C1_ConcurrentCreationsDistinctIds ==
    \A i \in Completed :
        /\ calls[i].project.id > maxId(mockProjects)
        /\ \A j \in Completed : i # j => calls[i].project.id # calls[j].project.id

\* C3: in every reachable state no two records of the store have the same id.
C3_StoreIdsUnique ==
    \A i \in DOMAIN projects : \A j \in DOMAIN projects :
        i # j => projects[i].id # projects[j].id

\* C10: each createProject call assigns an id strictly greater than the id of
\* every earlier createProject call, added to the store yet or not.
C10_IdsStrictlyIncrease ==
    \A i \in DOMAIN calls : \A j \in DOMAIN calls :
        i < j => calls[i].project.id < calls[j].project.id

---------------------------------------------------------------------------
(* Access *)

\* v resolves in the Directory to the institution of r
SameInstitution(r, v) ==
    /\ getStudentByWallet(v) # <<>>
    /\ Prop(r, "institutionId") = getStudentByWallet(v)[1].institutionId

\* the ids a lookup may ask for: those in use, and one that is not
Ids == 1 .. (maxId(projects) + 1)

\* C2: a record of the Institution level (tag 1) is listed for a viewer, and
\* fetched by that viewer, exactly when the viewer is one of its authors or
\* resolves in the Directory to the record's institution.
C2_InstitutionVisibleToMembers ==
    \A i \in DOMAIN projects : \A v \in Viewers :
        LET r == projects[i]
        IN r.accessLevel = 1 =>
              ((Contains(listVisible(v), r) /\ getVisible(r.id, v) = <<r>>)
                 <=> (v \in Range(r.authors) \/ SameInstitution(r, v)))

\* C4: a Private record is neither listed for nor fetched by a viewer that
\* is not one of its authors: the lookup by its id reports not found.
C4_PrivateOnlyForAuthors ==
    \A i \in DOMAIN projects : \A v \in Viewers :
        LET r == projects[i]
        IN (r.accessLevel = 2 /\ v \notin Range(r.authors)) =>
              (~Contains(listVisible(v), r) /\ getVisible(r.id, v) = <<>>)

\* C5: every record of the store is listed for each of its authors, and the
\* lookup by its id returns it to each of its authors, whatever its level.
C5_AuthorsAlwaysSee ==
    \A i \in DOMAIN projects :
        LET r == projects[i]
        IN \A a \in Range(r.authors) :
              Contains(listVisible(a), r) /\ getVisible(r.id, a) = <<r>>

\* C6: a Public record is listed for every viewer, and the lookup by its id
\* returns it to every viewer, the absent one included.
C6_PublicVisibleToAll ==
    \A i \in DOMAIN projects : \A v \in Viewers :
        LET r == projects[i]
        IN r.accessLevel = 0 =>
              (Contains(listVisible(v), r) /\ getVisible(r.id, v) = <<r>>)

\* the records of a store the access rule lets v view, in the store's order
Viewable(state, v) ==
    LET Allowed(r) == CanView(r, v) IN SelectSeq(state, Allowed)

\* C7: for every viewer the visible list is the unfiltered list restricted
\* to the records the access rule lets the viewer see, in the same order.
C7_ListIsFilteredStore ==
    \A v \in Viewers : listVisible(v) = Viewable(listAllUnfiltered, v)

\* C8: a step that changes the store only in records a viewer may not view
\* changes the result of none of that viewer's lookups by id.
C8_LookupHidesExistence ==
    [][\A v \in Viewers :
          Viewable(projects', v) = Viewable(projects, v) =>
              \A id \in Ids :
                  getProjectById(projects', id, v)
                      = getProjectById(projects, id, v)]_vars

---------------------------------------------------------------------------
(* Enrichment *)

\* C9: every addProject call that waits for the summarizer eventually
\* completes with its record in the store, whatever the summarizer does.
C9_AddProjectAlwaysCompletes ==
    \A i \in CallIds :
        (i \in DOMAIN calls /\ calls[i].pc = "awaiting")
            ~> (/\ i \in DOMAIN calls
                /\ calls[i].pc = "fulfilled"
                /\ Contains(projects, calls[i].project))

---------------------------------------------------------------------------
(* Steps *)

\* this step is a createProject call
CreateStep == Len(calls') = Len(calls) + 1

\* this step is an updateProject call, with lastUpdate'[1].arg
UpdateStep == updates' = updates + 1

\* this step completes the addProject call of creation i
Completes(i) == calls[i].pc # "fulfilled" /\ calls'[i].pc = "fulfilled"

\* no record of the store has the id
NoMatch(state, id) == \A k \in DOMAIN state : state[k].id # id

\* how often the store holds the record
Count(state, r) == Cardinality({k \in DOMAIN state : state[k] = r})

---------------------------------------------------------------------------
(* updateProject *)

\* C11: an updateProject call with a record whose id no stored record has
\* leaves the collection as it was: same records, same order, same length.
C11_UpdateMissChangesNothing ==
    [][(UpdateStep /\ NoMatch(projects, lastUpdate'[1].arg.id))
          => projects' = projects]_vars

\* an updateProject call has been made with an id the store does not hold
C11_UpdateMissed ==
    /\ lastUpdate # <<>>
    /\ NoMatch(projects, lastUpdate[1].arg.id)
    /\ lastUpdate[1].arg.title = "Edited"

\* C12: an updateProject call with a record whose id a stored record has
\* puts the given record at that record's position and leaves every other
\* record, the order and the length unchanged.
C12_UpdateReplacesOneRecord ==
    [][(UpdateStep /\ ~NoMatch(projects, lastUpdate'[1].arg.id))
          => \E k \in DOMAIN projects :
                /\ projects[k].id = lastUpdate'[1].arg.id
                /\ projects' = [projects EXCEPT ![k] = lastUpdate'[1].arg]]_vars

---------------------------------------------------------------------------
(* createProject and addProject *)

\* C13: createProject leaves the store as it was and its record is not in
\* the store; the record stays out of the store until addProject is called
\* with it, and is in the store exactly once when that addProject completes.
C13_CreateDoesNotPersist ==
    [][/\ CreateStep =>
            /\ projects' = projects
            /\ ~Contains(projects', calls'[Len(calls')].project)
       /\ \A i \in DOMAIN calls' :
            calls'[i].pc = "created" => ~Contains(projects', calls'[i].project)
       /\ \A i \in DOMAIN calls :
            Completes(i) => Count(projects', calls'[i].project) = 1]_vars

\* one record has been added and is in the store once, another has been
\* created and is not in the store
C13_OneAddedOneCreated ==
    \E i \in DOMAIN calls : \E j \in DOMAIN calls :
        /\ calls[i].pc = "fulfilled"
        /\ Count(projects, calls[i].project) = 1
        /\ calls[j].pc = "created"
        /\ ~Contains(projects, calls[j].project)

\* the two records agree in every field but the summary
SameButSummary(a, b) ==
    \A f \in (DOMAIN a \cup DOMAIN b) \ {"aiSummary"} :
        f \in DOMAIN a /\ f \in DOMAIN b /\ a[f] = b[f]

\* C14: when addProject(r) completes for a record r of createProject, the
\* lookup of r.id by r's creator returns a record equal to r in every field
\* but the summary, whatever the access level of r.
C14_RoundTrip ==
    [][projects' # projects =>
          \A i \in DOMAIN calls :
              Completes(i) =>
                  (\E got \in Range(projects') :
                      /\ getProjectById(projects', calls[i].project.id,
                                        calls[i].project.creatorAddress)
                            = <<got>>
                      /\ SameButSummary(got, calls[i].project))]_vars

\* a Private and a Restricted record have been added, and each is returned
\* to its creator
C14_AddedAndFetched ==
    \E i \in DOMAIN calls : \E j \in DOMAIN calls :
        /\ calls[i].pc = "fulfilled" /\ calls[j].pc = "fulfilled"
        /\ calls[i].project.accessLevel = 2
        /\ calls[j].project.accessLevel = 1
        /\ getVisible(calls[i].project.id, calls[i].project.creatorAddress)
              = <<calls[i].project>>
        /\ getVisible(calls[j].project.id, calls[j].project.creatorAddress)
              = <<calls[j].project>>

\* creatorAddress of a stored record; the seed records have none
CreatorOf(p) == Prop(p, "creatorAddress")

\* C15: for every id in the store, the uploadDate and the creatorAddress
\* stored under that id stay as they are through every operation,
\* updateProject included.
C15_CreationFieldsImmutable ==
    [][\A k \in DOMAIN projects : \A m \in DOMAIN projects' :
          projects'[m].id = projects[k].id =>
              /\ projects'[m].uploadDate = projects[k].uploadDate
              /\ CreatorOf(projects'[m]) = CreatorOf(projects[k])]_vars

\* C16: the record of every createProject call has the institution and the
\* department of its author when the Directory resolves the author, else the
\* department the caller gave and institution 1; its authors are the author
\* alone, and its creatorAddress is that author.
C16_AffiliationFromDirectory ==
    \A i \in DOMAIN calls :
        LET r == calls[i].project
            a == calls[i].args
            author == r.creatorAddress
            student == getStudentByWallet(author)
        IN /\ r.authors = <<author>>
           /\ Truthy(author)
           /\ Truthy(a.authorAddress) => author = a.authorAddress
           /\ student # <<>> =>
                 /\ r.institutionId = student[1].institutionId
                 /\ r.departmentId = student[1].departmentId
           /\ student = <<>> =>
                 /\ r.institutionId = 1
                 /\ r.departmentId = a.departmentId

\* one record has been created for an author the Directory resolves, whose
\* department differs from the one the caller gave, and one for an author
\* it does not resolve
C16_ResolvedAndUnresolved ==
    \E i \in DOMAIN calls : \E j \in DOMAIN calls :
        /\ getStudentByWallet(calls[i].project.creatorAddress) # <<>>
        /\ calls[i].project.departmentId # calls[i].args.departmentId
        /\ getStudentByWallet(calls[j].project.creatorAddress) = <<>>
        /\ calls[j].project.departmentId = calls[j].args.departmentId

\* C17: every completed addProject puts its record first in the full
\* listing and leaves the records already stored in their order after it.
C17_NewestFirst ==
    [][\A i \in DOMAIN calls :
          Completes(i) =>
              /\ Head(getAllProjectsAdmin(projects')) = calls'[i].project
              /\ Tail(getAllProjectsAdmin(projects'))
                    = getAllProjectsAdmin(projects)]_vars

\* two addProject calls have completed, and the full listing is the two
\* records followed by the seed
C17_TwoAdded ==
    /\ Len(calls) = 2
    /\ \A i \in DOMAIN calls : calls[i].pc = "fulfilled"
    /\ Len(listAllUnfiltered) = Len(mockProjects) + 2
    /\ {listAllUnfiltered[1], listAllUnfiltered[2]}
          = {calls[1].project, calls[2].project}
    /\ lastUpdate = <<>>

\* C18: the id createProject assigns is one more than the greatest id in
\* the store at the call, and 1 for the empty store.
C18_IdIsMaxPlusOne ==
    [][CreateStep =>
          LET id == calls'[Len(calls')].project.id
          IN /\ \A k \in DOMAIN projects : projects[k].id < id
             /\ \E k \in DOMAIN projects : projects[k].id = id - 1
             /\ \A a \in CreateArgs :
                  \A h \in MockIpfsHashes : \A m \in FabricatedAddresses :
                    createProject(<<>>, a, h, m, now).id = 1]_vars

\* a record has been created after another was added
C18_CreatedAfterAdd ==
    \E i \in DOMAIN calls :
        /\ calls[i].project.id = maxId(mockProjects) + 2
        /\ \E k \in DOMAIN projects : projects[k].id = maxId(mockProjects) + 1

---------------------------------------------------------------------------
(* The two read paths; updateProject during a pending addProject *)

\* C19: for every id and viewer, the lookup returns a record exactly when
\* the viewer's listing holds a record with that id, and the record the
\* lookup returns is one of the listing.
C19_ReadPathsAgree ==
    \A id \in Ids : \A v \in Viewers :
        /\ getVisible(id, v) # <<>>
             <=> (\E r \in Range(listVisible(v)) : r.id = id)
        /\ getVisible(id, v) # <<>>
             => Contains(listVisible(v), getVisible(id, v)[1])

\* C20: when updateProject(r2) was called while addProject(r), with
\* r.id = r2.id, was waiting for the summarizer, then once that addProject
\* has completed the store's record with that id is r2.
C20_UpdateSurvivesPendingAdd ==
    \A i \in DOMAIN calls :
        (/\ lastUpdate # <<>>
         /\ i \in lastUpdate[1].awaiting
         /\ calls[i].pc = "fulfilled")
            => Find(projects, calls[i].project.id) = <<lastUpdate[1].arg>>

---------------------------------------------------------------------------
(* src/src/components/ProjectCard/index.tsx *)

\* The wallet addresses of the model that have an upper-case letter, each
\* with its lower-case form; every other address of the model has none.
LowerCased == ("0xAA" :> "0xaa")

\* String.prototype.toLowerCase, on wallet addresses
toLowerCase(s) == IF s \in DOMAIN LowerCased THEN LowerCased[s] ELSE s

\* address && authors.some(author =>
\*     author.toLowerCase() === address.toLowerCase())
isOwnProject(project, address) ==
    /\ Truthy(address)
    /\ \E k \in DOMAIN project.authors :
         toLowerCase(project.authors[k]) = toLowerCase(address)

\* C21: whenever the card takes a stored record for the viewer's own (the
\* wallet address equals one of its authors, letter case ignored), the
\* viewer's listing holds the record and the viewer's lookup of its id
\* returns it.
C21_OwnProjectIsVisible ==
    \A k \in DOMAIN projects : \A a \in Viewers :
        isOwnProject(projects[k], a) =>
            /\ Contains(listVisible(a), projects[k])
            /\ getVisible(projects[k].id, a) = <<projects[k]>>

====
